---- MODULE Spec2Model ----
(***************************************************************************)
(* Multi-tap keypad input engine of the Morse coder firmware               *)
(* ("Source code/src/main.rs"): the main loop calls handle_multitap_input  *)
(* once per iteration, which confirms a pending key after the 1000 ms      *)
(* timeout or scans the 4x4 keypad, and then reacts to the returned        *)
(* (character, is_mode_switch) pair.                                       *)
(*                                                                         *)
(* Time.  The code only ever compares `now - last_press_time` with the     *)
(* timeout, so the two instants are kept as ages: since_press is the time  *)
(* elapsed since last_press_time and since_now the time elapsed since the  *)
(* running call read `now`; both saturate at Timeout, which keeps the      *)
(* comparison exact.                                                       *)
(***************************************************************************)
EXTENDS Integers, Sequences, FiniteSets, TLC

\* ---------------------------------------------------------------- bounds
MaxTap == 4          \* cap of tap_index (a usize the code never bounds)
MaxHeld == 1         \* number of keys held down at the same time
PollsPerStep == 50   \* release polls of scan_keypad taken in one step

\* ------------------------------------------------------- program constants
Timeout == 1000      \* handle_multitap_input: Duration::from_millis(1000)
PollDelay == 10      \* scan_keypad: delay between two release polls
SettleDelay == 100   \* scan_keypad: settle delay after release
YieldDelay == 50     \* handle_multitap_input: delay of a tick returning None
DotTime == 200       \* flash_dot
DashTime == 600      \* flash_dash
SymbolGap == 200     \* display_letter_morse: break between signals
LetterGap == 600     \* display_letter_morse: break between letters
UnmappedTime == 600  \* show_char_morse: "Unmapped!" delay

\* Option<T>
None == <<>>
Some(x) == <<x>>
Unwrap(o) == o[1]

\* InputMode
InputMode == {"Text", "Numeric"}

\* init_keypad: keys[r][c]
keys == << <<"1", "2", "3", "!">>,
           <<"4", "5", "6", "^">>,
           <<"7", "8", "9", ")">>,
           <<"*", "0", "#", "(">> >>

Positions == (1..4) \X (1..4)
KeyAt(p) == keys[p[1]][p[2]]
KeyChars == {KeyAt(p) : p \in Positions}

\* the digit test written as '1'..='9'
is_ascii_digit_nozero(key) == key \in {"1", "2", "3", "4", "5", "6", "7", "8", "9"}

is_ascii_digit(key) == key \in {"0", "1", "2", "3", "4", "5", "6", "7", "8", "9"}

get_multitap_chars(key) ==
    CASE key = "2" -> Some(<<"A", "B", "C">>)
      [] key = "3" -> Some(<<"D", "E", "F">>)
      [] key = "4" -> Some(<<"G", "H", "I">>)
      [] key = "5" -> Some(<<"J", "K", "L">>)
      [] key = "6" -> Some(<<"M", "N", "O">>)
      [] key = "7" -> Some(<<"P", "Q", "R", "S">>)
      [] key = "8" -> Some(<<"T", "U", "V">>)
      [] key = "9" -> Some(<<"W", "X", "Y", "Z">>)
      [] key = "0" -> Some(<<" ">>)
      [] OTHER -> None

\* chars[i] of a Rust slice (0-based)
Index(chars, i) == chars[i + 1]

\* confirm_key cycling through the digits in Numeric mode as it does through
\* the letters in Text mode
confirm_key_cycle(key, tap_index_, mode_) ==
    IF mode_ = "Numeric"
    THEN IF is_ascii_digit(key)
         THEN LET digits == <<"0", "1", "2", "3", "4", "5", "6", "7", "8", "9">>
                  d == CHOOSE i \in 1..10 : digits[i] = key
              IN  Some(digits[((d - 1 + tap_index_) % 10) + 1])
         ELSE IF key = "1" THEN Some("1")
         ELSE None
    ELSE IF get_multitap_chars(key) # None
         THEN LET chars == Unwrap(get_multitap_chars(key))
              IN  Some(Index(chars, tap_index_ % Len(chars)))
         ELSE None

\* confirm_key selecting the candidate after the one tapped
confirm_key_next(key, tap_index_, mode_) ==
    IF mode_ = "Numeric"
    THEN IF is_ascii_digit(key) THEN Some(key)
         ELSE IF key = "1" THEN Some("1")
         ELSE None
    ELSE IF get_multitap_chars(key) # None
         THEN LET chars == Unwrap(get_multitap_chars(key))
              IN  Some(Index(chars, (tap_index_ + 1) % Len(chars)))
         ELSE None

\* the tap count used as the index as it is
CandidateIndex_raw(chars, tap_index_) == tap_index_

\* lines 259, 366: tap_index % chars.len()
CandidateIndex(chars, tap_index_) == tap_index_ % Len(chars)

confirm_key(key, tap_index_, mode_) ==
    IF mode_ = "Numeric"
    THEN IF is_ascii_digit(key) THEN Some(key)
         ELSE IF key = "1" THEN Some("1")
         ELSE None
    ELSE IF get_multitap_chars(key) # None
         THEN LET chars == Unwrap(get_multitap_chars(key))
              IN  Some(Index(chars, CandidateIndex(chars, tap_index_)))
         ELSE None

\* lines 363-373: the character logged for the pending key after a tap
preview(key, tap_index_, mode_) ==
    IF mode_ = "Text"
    THEN IF get_multitap_chars(key) # None
         THEN LET chars == Unwrap(get_multitap_chars(key))
              IN  Some(Index(chars, CandidateIndex(chars, tap_index_)))
         ELSE None
    ELSE Some(key)

UpperCase == <<"A", "B", "C", "D", "E", "F", "G", "H", "I", "J", "K", "L", "M",
               "N", "O", "P", "Q", "R", "S", "T", "U", "V", "W", "X", "Y", "Z">>
LowerCase == <<"a", "b", "c", "d", "e", "f", "g", "h", "i", "j", "k", "l", "m",
               "n", "o", "p", "q", "r", "s", "t", "u", "v", "w", "x", "y", "z">>

\* char::to_ascii_uppercase
to_ascii_uppercase(c) ==
    IF \E i \in 1..26 : LowerCase[i] = c
    THEN UpperCase[CHOOSE i \in 1..26 : LowerCase[i] = c]
    ELSE c

morse_table(c) ==
    LET u == to_ascii_uppercase(c) IN
    CASE u = "A" -> Some(<<".", "-">>)
      [] u = "B" -> Some(<<"-", ".", ".", ".">>)
      [] u = "C" -> Some(<<"-", ".", "-", ".">>)
      [] u = "D" -> Some(<<"-", ".", ".">>)
      [] u = "E" -> Some(<<".">>)
      [] u = "F" -> Some(<<".", ".", "-", ".">>)
      [] u = "G" -> Some(<<"-", "-", ".">>)
      [] u = "H" -> Some(<<".", ".", ".", ".">>)
      [] u = "I" -> Some(<<".", ".">>)
      [] u = "J" -> Some(<<".", "-", "-", "-">>)
      [] u = "K" -> Some(<<"-", ".", "-">>)
      [] u = "L" -> Some(<<".", "-", ".", ".">>)
      [] u = "M" -> Some(<<"-", "-">>)
      [] u = "N" -> Some(<<"-", ".">>)
      [] u = "O" -> Some(<<"-", "-", "-">>)
      [] u = "P" -> Some(<<".", "-", "-", ".">>)
      [] u = "Q" -> Some(<<"-", "-", ".", "-">>)
      [] u = "R" -> Some(<<".", "-", ".">>)
      [] u = "S" -> Some(<<".", ".", ".">>)
      [] u = "T" -> Some(<<"-">>)
      [] u = "U" -> Some(<<".", ".", "-">>)
      [] u = "V" -> Some(<<".", ".", ".", "-">>)
      [] u = "W" -> Some(<<".", "-", "-">>)
      [] u = "X" -> Some(<<"-", ".", ".", "-">>)
      [] u = "Y" -> Some(<<"-", ".", "-", "-">>)
      [] u = "Z" -> Some(<<"-", "-", ".", ".">>)
      [] u = "0" -> Some(<<"-", "-", "-", "-", "-">>)
      [] u = "1" -> Some(<<".", "-", "-", "-", "-">>)
      [] u = "2" -> Some(<<".", ".", "-", "-", "-">>)
      [] u = "3" -> Some(<<".", ".", ".", "-", "-">>)
      [] u = "4" -> Some(<<".", ".", ".", ".", "-">>)
      [] u = "5" -> Some(<<".", ".", ".", ".", ".">>)
      [] u = "6" -> Some(<<"-", ".", ".", ".", ".">>)
      [] u = "7" -> Some(<<"-", "-", ".", ".", ".">>)
      [] u = "8" -> Some(<<"-", "-", "-", ".", ".">>)
      [] u = "9" -> Some(<<"-", "-", "-", "-", ".">>)
      [] OTHER -> None


\* ------------------------------------------------------------------ time
\* an age grown by d, saturating at the timeout
Sat(t) == IF t >= Timeout THEN Timeout ELSE t

RECURSIVE PulseTime(_)
\* display_letter_morse: time taken by the symbols of a code
PulseTime(code) ==
    IF code = <<>> THEN 0
    ELSE (IF Head(code) = "." THEN DotTime ELSE DashTime) + SymbolGap
         + PulseTime(Tail(code))

\* display_letter_morse: the pulses, then the break between letters
display_letter_morse_time(c) ==
    IF morse_table(c) # None
    THEN PulseTime(Unwrap(morse_table(c))) + LetterGap
    ELSE 0

\* show_char_morse!: playback, or the "Unmapped!" delay
show_char_morse_time(c) ==
    IF morse_table(c) # None
    THEN display_letter_morse_time(c)
    ELSE UnmappedTime

\* main: the time the match on the confirmed character takes.  The fun-fact
\* scroll lasts 600 ms per window (one window for a 16-character fact); the
\* hello, send, quiz and SOS branches all last longer than the timeout.
DispatchTimes(c) ==
    IF c = "*" THEN {600, Timeout}
    ELSE IF c \in {"!", "(", ")", "^"} THEN {Timeout}
    ELSE {Sat(show_char_morse_time(c))}

\* ----------------------------------------------------------------- state
VARIABLES
    held,         \* keypad: positions <<row, col>> of the keys held down
    pc,           \* "tick": main calls handle_multitap_input;
                  \* "wait": scan_keypad polls for the release of `key`;
                  \* "main": main handles the returned value;
                  \* "play": main dispatches and plays the character;
                  \* "unit": confirm_key is called on its own (SpecConfirm)
    key,          \* scan_keypad: position of the detected key while waiting
    last_key,     \* Option<char>
    tap_index,    \* usize
    since_press,  \* now() - last_press_time, saturated
    since_now,    \* now() - `now` of the running call, saturated
    mode,         \* InputMode
    result,       \* Option<(char, bool)> returned by the last call
    scanned,      \* what scan_keypad returned in the last call, or NotCalled
    confirm_call, \* the confirm_key call of the last call, if it made one:
                  \* Some(<<key, tap_index, mode, returned value>>)
    cols_low,     \* scan_keypad: the column lines driven low
    col,          \* scan_keypad: the column of the loop (SpecScan)
    outputs,      \* the lines driven high among led1, led2, led3, buzzer
    code,         \* display_letter_morse: the symbols still to play
    timeline,     \* the delays of the playback so far: <<outputs, ms>>
    message,      \* main: the message buffer (SpecMain)
    played        \* main: the characters handed to show_char_morse! (SpecMain)

\* the state of the playback, and of the main loop beyond the engine
player == <<outputs, code, timeline>>
buffer == <<message, played>>

vars == <<held, pc, key, last_key, tap_index, since_press, since_now, mode,
          result, scanned, confirm_call, cols_low, col, player, buffer>>

NotCalled == <<>>

\* init_state, and main before its loop
Init ==
    /\ held = {}
    /\ pc = "tick"
    /\ key = None
    /\ last_key = None
    /\ tap_index = 0
    /\ since_press = 0
    /\ since_now = 0
    /\ mode = "Text"
    /\ result = None
    /\ scanned = NotCalled
    /\ confirm_call = None
    /\ cols_low = {}
    /\ col = 0
    /\ outputs = {}
    /\ code = <<>>
    /\ timeline = <<>>
    /\ message = <<>>
    /\ played = <<>>

\* ----------------------------------------------------------- environment
\* The program reads the row lines only inside scan_keypad: when a call scans
\* (pc = "tick") and when it polls for the release of the detected key.  A key
\* pressed or released while the call waits for another key is read as pressed
\* or released by the next scan, so the keypad changes when a call scans, when
\* the detected key is released, and while main plays (pc = "play").
Press(p) ==
    /\ pc \in {"tick", "play"}
    /\ p \notin held
    /\ Cardinality(held) < MaxHeld
    /\ held' = held \cup {p}
    /\ UNCHANGED <<pc, key, last_key, tap_index, since_press, since_now, mode,
                   result, scanned, confirm_call,
                   cols_low, col, player, buffer>>

Release(p) ==
    /\ pc \in {"tick", "play"} \/ (pc = "wait" /\ key = Some(p))
    /\ p \in held
    /\ held' = held \ {p}
    /\ UNCHANGED <<pc, key, last_key, tap_index, since_press, since_now, mode,
                   result, scanned, confirm_call,
                   cols_low, col, player, buffer>>

\* ------------------------------------------------------------ scan_keypad
\* line 228: the rows that read low while column c alone is driven low
RowsLow(h, c) == {r \in 1..4 : <<r, c>> \in h}

\* the row loop returning at the last row that reads low
FirstRow_last(rows) == CHOOSE r \in rows : \A q \in rows : q <= r

\* lines 227-228: the row loop stops at the first row that reads low
FirstRow(rows) == CHOOSE r \in rows : \A q \in rows : r <= q

RECURSIVE ScanFrom(_, _)
\* lines 224-242: the column loop from column c on
ScanFrom(h, c) ==
    IF c > 4 THEN None
    ELSE IF RowsLow(h, c) # {} THEN Some(<<FirstRow(RowsLow(h, c)), c>>)
    ELSE ScanFrom(h, c + 1)

\* columns in order, rows in order within the column: the first held key
FirstHeld(h) == Unwrap(ScanFrom(h, 1))

\* ---------------------------------------------------- handle_multitap_input
\* the record of one confirm_key call
Call(last, tap_index_, mode_) ==
    Some(<<last, tap_index_, mode_, confirm_key(last, tap_index_, mode_)>>)

\* the timeout confirming after tap_index was reset
TimeoutConfirm_reset(last, tap_index_, mode_) == confirm_key(last, 0, mode_)

\* lines 280-288: the character confirmed by the timeout
TimeoutConfirm(last, tap_index_, mode_) == confirm_key(last, tap_index_, mode_)

\* the key change dropping the displaced key
KeyChangeConfirm_drop(last, tap_index_, mode_) == None

\* the key change confirming after tap_index was reset
KeyChangeConfirm_reset(last, tap_index_, mode_) == confirm_key(last, 0, mode_)

\* lines 349-356: the character confirmed when another key displaces `last`
KeyChangeConfirm(last, tap_index_, mode_) == confirm_key(last, tap_index_, mode_)

\* the timeout test written with > instead of >=
TimeoutFires_gt ==
    /\ last_key # None
    /\ since_press > Timeout
    /\ TimeoutConfirm(Unwrap(last_key), tap_index, mode) # None

\* lines 280-282: a key is pending, the timeout has elapsed and it resolves
TimeoutFires ==
    /\ last_key # None
    /\ since_press >= Timeout
    /\ TimeoutConfirm(Unwrap(last_key), tap_index, mode) # None

\* lines 276-288: confirm the pending key after the timeout, without scanning
TickTimeout ==
    /\ pc = "tick"
    /\ TimeoutFires
    /\ result' = Some(<<Unwrap(TimeoutConfirm(Unwrap(last_key), tap_index, mode)), FALSE>>)
    /\ confirm_call' = Call(Unwrap(last_key), tap_index, mode)
    /\ last_key' = None
    /\ tap_index' = 0
    /\ scanned' = NotCalled
    /\ pc' = "main"
    /\ since_now' = 0
    /\ UNCHANGED <<held, key, since_press, mode,
                   cols_low, col, player, buffer>>

\* lines 291, 377-378: scan_keypad finds no key; yield and return None
TickNoKey ==
    /\ pc = "tick"
    /\ ~TimeoutFires
    /\ held = {}
    /\ result' = None
    /\ confirm_call' = None
    /\ scanned' = Some(None)
    /\ since_press' = Sat(since_press + YieldDelay)
    /\ since_now' = 0
    /\ UNCHANGED <<held, pc, key, last_key, tap_index, mode,
                   cols_low, col, player, buffer>>

\* line 291, scan_keypad 224-229: a row reads low; start waiting for release
TickDetect ==
    /\ pc = "tick"
    /\ ~TimeoutFires
    /\ held # {}
    /\ key' = Some(FirstHeld(held))
    /\ cols_low' = {FirstHeld(held)[2]}
    /\ pc' = "wait"
    /\ since_now' = 0
    /\ result' = None
    /\ confirm_call' = None
    /\ scanned' = NotCalled
    /\ UNCHANGED <<held, last_key, tap_index, since_press, mode,
                   col, player, buffer>>

\* the release never waited for
RowHigh_nowait == TRUE

\* line 229: the row of the detected key reads high again
RowHigh == Unwrap(key) \notin held

\* scan_keypad 229-231: the key is still held; poll on for a while
WaitPoll ==
    /\ pc = "wait"
    /\ Unwrap(key) \in held
    /\ since_now' = Sat(since_now + PollsPerStep * PollDelay)
    /\ since_press' = Sat(since_press + PollsPerStep * PollDelay)
    /\ UNCHANGED <<held, pc, key, last_key, tap_index, mode, result, scanned,
                   confirm_call,
                   cols_low, col, player, buffer>>

\* the mode switch bound to the wrong key
ModeSwitchKey_star == "*"

\* line 292
ModeSwitchKey == "#"

\* the function keys without the SOS key
SpecialKeys_short == {"*", "!", "(", ")"}

\* lines 297-322
SpecialKeys == {"*", "!", "(", ")", "^"}

\* the validity check made in Numeric mode only
InvalidKey_numeric(k, mode_) == mode_ = "Numeric" /\ ~is_ascii_digit(k)

\* the validity check using the Numeric rule in both modes
InvalidKey_digits(k, mode_) == ~is_ascii_digit(k)

\* lines 324-341: the key is not accepted in the mode
InvalidKey(k, mode_) ==
    IF mode_ = "Text" THEN get_multitap_chars(k) = None
    ELSE ~is_ascii_digit(k)

\* scan_keypad 233-235 and lines 292-378: the key is released; settle, return
\* it and interpret it
ScanReturn ==
    /\ pc = "wait"
    /\ RowHigh
    /\ LET k == KeyAt(Unwrap(key))
           t_now == Sat(since_now + SettleDelay)
           t_press == Sat(since_press + SettleDelay)
       IN
       /\ scanned' = Some(Some(k))
       /\ key' = None
       /\ cols_low' = cols_low \ {Unwrap(key)[2]}
       /\ since_now' = 0
       /\ IF k = ModeSwitchKey THEN
              /\ last_key' = None
              /\ tap_index' = 0
              /\ result' = Some(<<ModeSwitchKey, TRUE>>)
              /\ confirm_call' = None
              /\ pc' = "main"
              /\ since_press' = t_press
          ELSE IF k \in SpecialKeys THEN
              /\ last_key' = None
              /\ tap_index' = 0
              /\ result' = Some(<<k, FALSE>>)
              /\ confirm_call' = None
              /\ pc' = "main"
              /\ since_press' = t_press
          ELSE IF InvalidKey(k, mode) THEN
              /\ last_key' = None
              /\ tap_index' = 0
              /\ result' = None
              /\ confirm_call' = None
              /\ pc' = "tick"
              /\ since_press' = t_press
          ELSE IF Some(k) = last_key THEN
              /\ tap_index < MaxTap
              /\ tap_index' = tap_index + 1
              /\ last_key' = Some(k)
              /\ since_press' = Sat(t_now + YieldDelay)
              /\ result' = None
              /\ confirm_call' = None
              /\ pc' = "tick"
          ELSE IF last_key # None
                  /\ KeyChangeConfirm(Unwrap(last_key), tap_index, mode) # None THEN
              /\ last_key' = Some(k)
              /\ tap_index' = 0
              /\ since_press' = t_now
              /\ result' = Some(<<Unwrap(KeyChangeConfirm(Unwrap(last_key), tap_index, mode)), FALSE>>)
              /\ confirm_call' = Call(Unwrap(last_key), tap_index, mode)
              /\ pc' = "main"
          ELSE
              /\ tap_index' = 0
              /\ last_key' = Some(k)
              /\ since_press' = Sat(t_now + YieldDelay)
              /\ result' = None
              /\ confirm_call' = IF last_key # None
                                 THEN Call(Unwrap(last_key), tap_index, mode)
                                 ELSE None
              /\ pc' = "tick"
    /\ UNCHANGED <<held, mode, col, player, buffer>>

\* a mode switch that is also appended to the message
MainModeSwitch_push ==
    /\ pc = "main"
    /\ result # None /\ Unwrap(result)[2]
    /\ mode' = IF mode = "Text" THEN "Numeric" ELSE "Text"
    /\ message' = Append(message, Unwrap(result)[1])
    /\ result' = None
    /\ confirm_call' = None
    /\ scanned' = NotCalled
    /\ pc' = "tick"
    /\ UNCHANGED <<held, key, last_key, tap_index, since_press, since_now,
                   cols_low, col, player, played>>

\* ------------------------------------------------------------------ main
\* lines 449-462: a mode switch toggles the mode and continues the loop
MainModeSwitch ==
    /\ pc = "main"
    /\ result # None /\ Unwrap(result)[2]
    /\ mode' = IF mode = "Text" THEN "Numeric" ELSE "Text"
    /\ result' = None
    /\ confirm_call' = None
    /\ scanned' = NotCalled
    /\ pc' = "tick"
    /\ UNCHANGED <<held, key, last_key, tap_index, since_press, since_now,
                   cols_low, col, player, buffer>>

\* lines 464-467: a confirmed character is dispatched
MainDispatch ==
    /\ pc = "main"
    /\ result # None /\ ~Unwrap(result)[2]
    /\ confirm_call' = None
    /\ scanned' = NotCalled
    /\ pc' = "play"
    /\ UNCHANGED <<held, key, last_key, tap_index, since_press, since_now,
                   mode, result, cols_low, col, player, buffer>>

\* a playback that stamps last_press_time when it ends
PlayDone_stamp ==
    /\ pc = "play"
    /\ since_press' = 0
    /\ result' = None
    /\ pc' = "tick"
    /\ UNCHANGED <<held, key, last_key, tap_index, since_now, mode, scanned,
                   confirm_call, cols_low, col, player, buffer>>

\* lines 467-556: the branch of the match has run to its end; of the
\* dispatch only the time it takes is kept here
PlayDone ==
    /\ pc = "play"
    /\ \E d \in DispatchTimes(Unwrap(result)[1]) :
           since_press' = Sat(since_press + d)
    /\ result' = None
    /\ pc' = "tick"
    /\ UNCHANGED <<held, key, last_key, tap_index, since_now, mode, scanned,
                   confirm_call, cols_low, col, player, buffer>>

Next ==
    \/ \E p \in Positions : Press(p)
    \/ \E p \in Positions : Release(p)
    \/ TickTimeout
    \/ TickNoKey
    \/ TickDetect
    \/ WaitPoll
    \/ ScanReturn
    \/ MainModeSwitch
    \/ MainDispatch
    \/ PlayDone

Spec == Init /\ [][Next]_vars

\* the single task always runs on: a call whose key is released returns, and
\* a dispatch runs to its end
FairSpec == Spec /\ WF_vars(ScanReturn) /\ WF_vars(PlayDone)

\* the program with the keypad limited to three keys, two multi-tap keys and
\* the mode switch
PlayKeys == {"2", "3", "#"}
PlayPositions == {p \in Positions : KeyAt(p) \in PlayKeys}

NextPlayKeys ==
    \/ \E p \in PlayPositions : Press(p)
    \/ \E p \in PlayPositions : Release(p)
    \/ TickTimeout
    \/ TickNoKey
    \/ TickDetect
    \/ WaitPoll
    \/ ScanReturn
    \/ MainModeSwitch
    \/ MainDispatch
    \/ PlayDone

FairSpecPlayKeys ==
    Init /\ [][NextPlayKeys]_vars /\ WF_vars(ScanReturn) /\ WF_vars(PlayDone)

\* --------------------------------------------------- confirm_key on its own
\* the keys of both keypad layouts of the repository
ConfirmKeys == KeyChars \cup {"A", "B", "C", "D"}

InitConfirm ==
    /\ held = {}
    /\ pc = "unit"
    /\ key = None
    /\ last_key \in {Some(k) : k \in ConfirmKeys}
    /\ tap_index \in 0..MaxTap
    /\ since_press = 0
    /\ since_now = 0
    /\ mode \in InputMode
    /\ result = None
    /\ scanned = NotCalled
    /\ confirm_call = None
    /\ cols_low = {}
    /\ col = 0
    /\ outputs = {}
    /\ code = <<>>
    /\ timeline = <<>>
    /\ message = <<>>
    /\ played = <<>>

\* one call confirm_key(key, tap_index, mode)
ConfirmKeyCall ==
    /\ pc = "unit"
    /\ confirm_call' = Call(Unwrap(last_key), tap_index, mode)
    /\ UNCHANGED <<held, pc, key, last_key, tap_index, since_press, since_now,
                   mode, result, scanned,
                   cols_low, col, player, buffer>>

NextConfirm == ConfirmKeyCall

SpecConfirm == InitConfirm /\ [][NextConfirm]_vars

\* --------------------------------------------------- scan_keypad on its own
\* One call of scan_keypad, column by column, on every set of up to
\* MaxHeld + 1 keys held down when the call starts.
ScanHeldSets == {h \in SUBSET Positions : Cardinality(h) <= MaxHeld + 1}

InitScan ==
    /\ held \in ScanHeldSets
    /\ pc = "scan_low"
    /\ key = None
    /\ last_key = None
    /\ tap_index = 0
    /\ since_press = 0
    /\ since_now = 0
    /\ mode = "Text"
    /\ result = None
    /\ scanned = NotCalled
    /\ confirm_call = None
    /\ cols_low = {}
    /\ col = 1
    /\ outputs = {}
    /\ code = <<>>
    /\ timeline = <<>>
    /\ message = <<>>
    /\ played = <<>>

\* line 225: col.set_low()
ScanSetLow ==
    /\ pc = "scan_low"
    /\ cols_low' = cols_low \cup {col}
    /\ pc' = "scan_rows"
    /\ UNCHANGED <<held, key, last_key, tap_index, since_press, since_now,
                   mode, result, scanned, confirm_call, col, player, buffer>>

\* lines 227-242: the rows of the column are read; a row that reads low is
\* waited for, else the column is set high again and the next one is taken
ScanRows ==
    /\ pc = "scan_rows"
    /\ IF RowsLow(held, col) # {} THEN
           /\ key' = Some(<<FirstRow(RowsLow(held, col)), col>>)
           /\ pc' = "wait"
           /\ UNCHANGED <<cols_low, col, scanned>>
       ELSE
           /\ cols_low' = cols_low \ {col}
           /\ IF col < 4
              THEN col' = col + 1 /\ pc' = "scan_low" /\ scanned' = scanned
              ELSE col' = col /\ pc' = "scan_done" /\ scanned' = Some(None)
           /\ key' = key
    /\ UNCHANGED <<held, last_key, tap_index, since_press, since_now, mode,
                   result, confirm_call, player, buffer>>

\* the return after the release leaving the column low
ScanSettle_keep_low ==
    /\ pc = "wait"
    /\ RowHigh
    /\ since_now' = Sat(since_now + SettleDelay)
    /\ since_press' = Sat(since_press + SettleDelay)
    /\ scanned' = Some(Some(KeyAt(Unwrap(key))))
    /\ key' = None
    /\ pc' = "scan_done"
    /\ UNCHANGED <<held, last_key, tap_index, mode, result, confirm_call,
                   cols_low, col, player, buffer>>

\* lines 233-235: the row reads high again; settle, set the column high and
\* return the key
ScanSettle ==
    /\ pc = "wait"
    /\ RowHigh
    /\ since_now' = Sat(since_now + SettleDelay)
    /\ since_press' = Sat(since_press + SettleDelay)
    /\ cols_low' = cols_low \ {Unwrap(key)[2]}
    /\ scanned' = Some(Some(KeyAt(Unwrap(key))))
    /\ key' = None
    /\ pc' = "scan_done"
    /\ UNCHANGED <<held, last_key, tap_index, mode, result, confirm_call,
                   col, player, buffer>>

NextScan ==
    \/ ScanSetLow
    \/ ScanRows
    \/ WaitPoll
    \/ \E p \in Positions : Release(p)
    \/ ScanSettle

SpecScan == InitScan /\ [][NextScan]_vars

\* ------------------------------------------- display_letter_morse on its own
\* One call of display_letter_morse, from delay to delay: a state is the
\* playback suspended in a Timer::after, and timeline lists the delays taken
\* so far with the lines that are high during each.
Leds == {"led1", "led2", "led3"}
Lines == Leds \cup {"buzzer"}

Digits == <<"0", "1", "2", "3", "4", "5", "6", "7", "8", "9">>
Range(f) == {f[i] : i \in DOMAIN f}

\* the characters played: letters of both cases, digits, and characters
\* without a code
PlayChars ==
    Range(UpperCase) \cup Range(LowerCase) \cup Range(Digits)
        \cup {" ", "@", "*", "#", "!", "^", "(", ")"}

\* a dot flashing led2 without the buzzer
FlashDotLines_silent == {"led2"}

\* flash_dot called with led2 (line 204): the lines it sets high
FlashDotLines == {"led2", "buzzer"}

\* flash_dash: the lines it sets high
FlashDashLines == {"led1", "led2", "led3", "buzzer"}

\* lines 203-207: the lines a symbol sets high
FlashLines(symbol) ==
    IF symbol = "." THEN FlashDotLines
    ELSE IF symbol = "-" THEN FlashDashLines
    ELSE {}

\* a dash as short as a dot
FlashTime_short(symbol) == DotTime

\* lines 171, 186: the time a symbol keeps its lines high
FlashTime(symbol) == IF symbol = "." THEN DotTime ELSE DashTime

InitPlay ==
    /\ held = {}
    /\ pc = "dlm_start"
    /\ key = None
    /\ last_key = None
    /\ tap_index = 0
    /\ since_press = 0
    /\ since_now = 0
    /\ mode = "Text"
    /\ result = None
    /\ scanned = NotCalled
    /\ confirm_call = None
    /\ cols_low = {}
    /\ col = 0
    /\ outputs = {}
    /\ code = <<>>
    /\ timeline = <<>>
    /\ message = <<>>
    /\ played \in {<<c>> : c \in PlayChars}

\* the break between letters taken whether the character has a code or not
DlmStart_gap ==
    /\ pc = "dlm_start"
    /\ IF morse_table(played[1]) # None
       THEN /\ code' = Unwrap(morse_table(played[1]))
            /\ pc' = "dlm_symbol"
            /\ timeline' = timeline
       ELSE /\ code' = code
            /\ pc' = "dlm_done"
            /\ timeline' = Append(timeline, <<outputs, LetterGap>>)
    /\ UNCHANGED <<held, key, last_key, tap_index, since_press, since_now,
                   mode, result, scanned, confirm_call, cols_low, col,
                   outputs, buffer>>

\* line 201: the code of the character is looked up; without a code the call
\* returns at once
DlmStart ==
    /\ pc = "dlm_start"
    /\ IF morse_table(played[1]) # None
       THEN /\ code' = Unwrap(morse_table(played[1]))
            /\ pc' = "dlm_symbol"
       ELSE /\ code' = code
            /\ pc' = "dlm_done"
    /\ UNCHANGED <<held, key, last_key, tap_index, since_press, since_now,
                   mode, result, scanned, confirm_call, cols_low, col,
                   outputs, timeline, buffer>>

\* lines 202-207, 169-171, 182-186: the next symbol sets its lines high and
\* the flash delay is taken
FlashOn ==
    /\ pc = "dlm_symbol"
    /\ code # <<>>
    /\ outputs' = outputs \cup FlashLines(Head(code))
    /\ timeline' = Append(timeline, <<outputs', FlashTime(Head(code))>>)
    /\ pc' = "dlm_pulse"
    /\ UNCHANGED <<held, key, last_key, tap_index, since_press, since_now,
                   mode, result, scanned, confirm_call, cols_low, col, code,
                   buffer>>

\* lines 172-173, 187-190, 210: the lines are set low and the break between
\* signals is taken
FlashOff ==
    /\ pc = "dlm_pulse"
    /\ outputs' = outputs \ FlashLines(Head(code))
    /\ timeline' = Append(timeline, <<outputs', SymbolGap>>)
    /\ code' = Tail(code)
    /\ pc' = "dlm_symbol"
    /\ UNCHANGED <<held, key, last_key, tap_index, since_press, since_now,
                   mode, result, scanned, confirm_call, cols_low, col, buffer>>

\* line 214: after the last symbol the break between letters is taken
DlmLetterGap ==
    /\ pc = "dlm_symbol"
    /\ code = <<>>
    /\ timeline' = Append(timeline, <<outputs, LetterGap>>)
    /\ pc' = "dlm_done"
    /\ UNCHANGED <<held, key, last_key, tap_index, since_press, since_now,
                   mode, result, scanned, confirm_call, cols_low, col,
                   outputs, code, buffer>>

NextPlay ==
    \/ DlmStart
    \/ FlashOn
    \/ FlashOff
    \/ DlmLetterGap

SpecPlay == InitPlay /\ [][NextPlay]_vars

\* ----------------------------------- handle_multitap_input under any caller
\* The engine on its own: handle_multitap_input is called tick after tick by
\* a caller that owns the mode and passes it by value (line 274), so the mode
\* of a call is the caller's choice.  The keypad is limited to three keys.
TickKeys == {"1", "2", "#"}
TickPositions == {p \in Positions : KeyAt(p) \in TickKeys}

\* the caller takes the result of a call and chooses the mode of the next one
CallerTakes ==
    /\ pc = "main"
    /\ mode' \in InputMode
    /\ result' = None
    /\ confirm_call' = None
    /\ scanned' = NotCalled
    /\ pc' = "tick"
    /\ UNCHANGED <<held, key, last_key, tap_index, since_press, since_now,
                   cols_low, col, player, buffer>>

\* between two calls that returned nothing the caller changes the mode
CallerMode ==
    /\ pc = "tick"
    /\ mode' \in InputMode \ {mode}
    /\ UNCHANGED <<held, pc, key, last_key, tap_index, since_press, since_now,
                   result, scanned, confirm_call, cols_low, col, player,
                   buffer>>

NextTick ==
    \/ \E p \in TickPositions : Press(p)
    \/ \E p \in TickPositions : Release(p)
    \/ TickTimeout
    \/ TickNoKey
    \/ TickDetect
    \/ WaitPoll
    \/ ScanReturn
    \/ CallerTakes
    \/ CallerMode

SpecTick == Init /\ [][NextTick]_vars

\* ------------------------------------------------- the main loop on its own
\* The loop of main with handle_multitap_input reduced to the value it
\* returns: message is the String<32> of main, played lists the characters
\* handed to show_char_morse or display_letter_morse while the returned value
\* is handled.  Messages are explored up to MaxMsg characters.
MaxMsg == 3
MessageCapacity == 32

\* line 465: message.push(c).ok() - a push on a full String is dropped
push(msg, c) == IF Len(msg) < MessageCapacity THEN Append(msg, c) ELSE msg

\* the values a call can return: a character confirmed under the mode, a
\* special key, or the mode switch
HandlerResults(m) ==
    {<<IF m = "Text" THEN "E" ELSE "5", FALSE>>}
        \cup {<<k, FALSE>> : k \in {"*", "!", "(", ")", "^"}}
        \cup {<<"#", TRUE>>}

\* lines 440-448: a call returns Some((c, is_mode_switch))
HandlerReturns ==
    /\ pc = "tick"
    /\ Len(message) < MaxMsg
    /\ result' \in {Some(r) : r \in HandlerResults(mode)}
    /\ played' = <<>>
    /\ pc' = "main"
    /\ UNCHANGED <<held, key, last_key, tap_index, since_press, since_now,
                   mode, scanned, confirm_call, cols_low, col, player,
                   message>>

\* lines 492-510 with c = '(': the characters replayed and the message left
SendPlayed(msg) ==
    IF msg = <<>> THEN <<>> ELSE SubSeq(msg, 1, Len(msg) - 1)

\* lines 464-556: the character is appended to the message and the branch of
\* the match that handles it runs to its end
MainMatch ==
    /\ pc = "main"
    /\ result # None /\ ~Unwrap(result)[2]
    /\ LET c == Unwrap(result)[1]
           pushed == push(message, c)
       IN  IF c = "*"
           THEN message' = pushed /\ played' = <<>>
           ELSE IF c = "!"
           THEN message' = pushed /\ played' = <<"H", "E", "L", "L", "O">>
           ELSE IF c = "("
           THEN message' = <<>> /\ played' = SendPlayed(pushed)
           ELSE IF c = ")"
           THEN /\ message' = pushed
                /\ \E letter \in Range(UpperCase) : played' = <<letter>>
           ELSE IF c = "^"
           THEN message' = pushed /\ played' = <<"S", "O", "S">>
           ELSE message' = pushed /\ played' = <<c>>
    /\ result' = None
    /\ pc' = "tick"
    /\ UNCHANGED <<held, key, last_key, tap_index, since_press, since_now,
                   mode, scanned, confirm_call, cols_low, col, player>>

NextMain ==
    \/ HandlerReturns
    \/ MainModeSwitch
    \/ MainMatch

SpecMain == Init /\ [][NextMain]_vars

\* ------------------------------------------- the main loop filling the message
\* The loop of main with the returned values limited to one character and the
\* send key, so that the message is explored up to its capacity.
SendResults == {<<"E", FALSE>>, <<"(", FALSE>>}

\* lines 440-448: a call returns Some((c, false))
HandlerReturnsSend ==
    /\ pc = "tick"
    /\ result' \in {Some(r) : r \in SendResults}
    /\ played' = <<>>
    /\ pc' = "main"
    /\ UNCHANGED <<held, key, last_key, tap_index, since_press, since_now,
                   mode, scanned, confirm_call, cols_low, col, player,
                   message>>

\* lines 493-508 with c = '(': the text left on the display
SendShows(msg) == IF msg = <<>> THEN "No msg to send" ELSE "Done sending!"

NextSend ==
    \/ HandlerReturnsSend
    \/ MainMatch

SpecSend == Init /\ [][NextSend]_vars

\* ================================================================ claims
\* kinds of steps, told from the variables
ProgramStep == held' = held /\ vars' # vars
TickStep == pc = "tick" /\ ProgramStep
ScanReturnStep == pc = "wait" /\ pc' # "wait"
ScannedKey == KeyAt(Unwrap(key))

\* the keys of the multi-tap table, and their candidate lists
TextKeys == {"2", "3", "4", "5", "6", "7", "8", "9", "0"}
DigitKeys == {"0", "1", "2", "3", "4", "5", "6", "7", "8", "9"}
ValidKeys(m) == IF m = "Text" THEN TextKeys ELSE DigitKeys
Pending == last_key # None
Elapsed == since_press >= Timeout
Candidate(k, n) ==
    LET table == Unwrap(get_multitap_chars(k))
    IN  table[(n % Len(table)) + 1]

\* C1: in Text mode a first tap of a multi-tap key k from Idle makes k pending
\* with tap_index 0, every further tap of k seen before the timeout adds one
\* to tap_index and returns nothing, and the tick at which the timeout has
\* elapsed returns (table[k][tap_index mod len(table[k])], false)
C1_TapCycle ==
    [][mode = "Text" =>
        /\ (ScanReturnStep /\ ~Pending /\ ScannedKey \in TextKeys)
              => /\ last_key' = Some(ScannedKey)
                 /\ tap_index' = 0
                 /\ result' = None
        /\ (ScanReturnStep /\ Pending /\ Some(ScannedKey) = last_key)
              => /\ Unwrap(last_key) \in TextKeys
                 /\ last_key' = last_key
                 /\ tap_index' = tap_index + 1
                 /\ result' = None
        /\ (TickStep /\ Pending /\ Elapsed)
              => /\ Unwrap(last_key) \in TextKeys
                 /\ result' = Some(<<Candidate(Unwrap(last_key), tap_index), FALSE>>)
    ]_vars

\* three taps of '2' and the timeout have returned 'C'
C1_Witness ==
    /\ pc = "main"
    /\ scanned = NotCalled
    /\ result = Some(<<"C", FALSE>>)
    /\ confirm_call = Some(<<"2", 2, "Text", Some("C")>>)

\* C2: a tick that scans a valid key different from the pending key returns
\* (confirm(pending key, tap_index, mode), false), and leaves the new key
\* pending with tap_index 0 and last_press_time = now of that tick
C2_KeyChange ==
    [][(/\ ScanReturnStep
        /\ Pending
        /\ ScannedKey \in ValidKeys(mode)
        /\ Some(ScannedKey) # last_key)
       => /\ confirm_key(Unwrap(last_key), tap_index, mode) # None
          /\ result' = Some(<<Unwrap(confirm_key(Unwrap(last_key), tap_index, mode)), FALSE>>)
          /\ last_key' = Some(ScannedKey)
          /\ tap_index' = 0
          /\ since_press' = Sat(since_now + SettleDelay)
    ]_vars

\* '2' then '3' has returned 'A' and left '3' pending
C2_Witness ==
    /\ pc = "main"
    /\ scanned = Some(Some("3"))
    /\ result = Some(<<"A", FALSE>>)
    /\ confirm_call = Some(<<"2", 0, "Text", Some("A")>>)
    /\ last_key = Some("3")
    /\ tap_index = 0

\* C3: a tick with a key pending and the timeout elapsed returns
\* (confirm(last_key, tap_index, mode), false) without calling scan_keypad and
\* leaves the engine Idle; the keys held are left for a later tick, and a
\* valid key scanned from Idle starts at tap_index 0
C3_TimeoutFirst ==
    [][/\ (TickStep /\ Pending /\ Elapsed)
          => /\ confirm_key(Unwrap(last_key), tap_index, mode) # None
             /\ result' = Some(<<Unwrap(confirm_key(Unwrap(last_key), tap_index, mode)), FALSE>>)
             /\ scanned' = NotCalled
             /\ pc' = "main"
             /\ last_key' = None
             /\ tap_index' = 0
             /\ held' = held
       /\ (ScanReturnStep /\ ~Pending /\ ScannedKey \in ValidKeys(mode))
          => /\ last_key' = Some(ScannedKey)
             /\ tap_index' = 0
    ]_vars

\* the timeout has confirmed a key tapped more than once while a key is held
C3_Witness ==
    /\ pc = "main"
    /\ scanned = NotCalled
    /\ confirm_call # None
    /\ Unwrap(confirm_call)[2] > 0
    /\ result # None
    /\ last_key = None
    /\ held # {}

\* C4: whenever scan_keypad returns '#', in either mode, Idle or Accumulating,
\* the same tick clears the pending key and returns ('#', true)
C4_ModeSwitch ==
    [][(ScanReturnStep /\ ScannedKey = "#")
       => /\ result' = Some(<<"#", TRUE>>)
          /\ last_key' = None
          /\ tap_index' = 0
          /\ pc' = "main"
    ]_vars

\* '#' has been returned in Numeric mode before the timeout of a pending key
C4_Witness ==
    /\ pc = "main"
    /\ mode = "Numeric"
    /\ result = Some(<<"#", TRUE>>)
    /\ last_key = None
    /\ tap_index = 0
    /\ since_press < Timeout


FunctionKeys == {"*", "!", "(", ")", "^"}
BypassKeys == {"#"} \cup FunctionKeys
Resolves == Pending /\ confirm_key(Unwrap(last_key), tap_index, mode) # None
Confirmed == Some(<<Unwrap(confirm_key(Unwrap(last_key), tap_index, mode)), FALSE>>)

\* C5 (as stated): a pending accumulation that resolves under the current
\* mode is never lost: the tick that ends it returns it as (character, false),
\* whatever key that tick scanned
C5_NoSilentLoss ==
    [][(Resolves /\ last_key' # last_key) => result' = Confirmed]_vars

\* C5 (amended): the tick that ends a pending accumulation returns it as
\* (character, false), on the timeout or on a different valid key, unless that
\* tick scanned the mode-switch key, a function key or a key invalid for the
\* mode: it then clears the pending accumulation without returning it.  An
\* accumulation not ended before its timeout is returned by the timeout tick.
C5_LossOnlyOnBypass ==
    [][/\ (Resolves /\ last_key' # last_key)
          => \/ result' = Confirmed
             \/ /\ ScanReturnStep
                /\ ScannedKey \in BypassKeys \cup (KeyChars \ ValidKeys(mode))
                /\ last_key' = None
                /\ tap_index' = 0
                /\ result' # Confirmed
       /\ (ScanReturnStep /\ Pending
             /\ ScannedKey \in BypassKeys \cup (KeyChars \ ValidKeys(mode)))
          => /\ last_key' = None
             /\ result' # Confirmed
       /\ (TickStep /\ Resolves /\ Elapsed)
          => /\ result' = Confirmed
             /\ last_key' = None
    ]_vars

\* a function key has been pressed and released while a key tapped more than
\* once is pending
C5_Witness ==
    /\ pc = "wait"
    /\ Resolves
    /\ tap_index >= 1
    /\ ScannedKey = "*"
    /\ Unwrap(key) \notin held

\* C6: in Numeric mode confirm_key returns the key itself for every digit at
\* every tap_index, and nothing for every other key
C6_NumericConfirm ==
    confirm_call # None =>
        LET c == Unwrap(confirm_call)
        IN  c[3] = "Numeric" =>
                /\ c[1] \in DigitKeys => c[4] = Some(c[1])
                /\ c[1] \notin DigitKeys => c[4] = None

\* confirm_key has been called on its own on a non-digit at a tap_index > 0
C6_Witness ==
    /\ pc = "unit"
    /\ confirm_call = Some(<<"#", 3, "Numeric", None>>)

\* C7: in Numeric mode, while a digit d is pending no tick returns a character
\* before the timeout has elapsed unless a different key is scanned, a repeat
\* tap of d returns nothing and keeps d pending, the tick at which the timeout
\* has elapsed returns (d, false) and leaves the engine Idle, and from Idle no
\* tick returns a digit
C7_NumericSingle ==
    [][mode = "Numeric" =>
        /\ Pending => Unwrap(last_key) \in DigitKeys
        /\ (Pending /\ TickStep /\ ~Elapsed)
              => /\ result' = None
                 /\ last_key' = last_key
        /\ (Pending /\ ScanReturnStep /\ Some(ScannedKey) = last_key)
              => /\ result' = None
                 /\ last_key' = last_key
        /\ (Pending /\ TickStep /\ Elapsed)
              => /\ result' = Some(<<Unwrap(last_key), FALSE>>)
                 /\ last_key' = None
                 /\ tap_index' = 0
        /\ (~Pending /\ ProgramStep /\ pc \in {"tick", "wait"})
              => \/ result' = None
                 \/ Unwrap(result')[1] \in BypassKeys
    ]_vars

\* three taps of '5' in Numeric mode and the timeout have returned one '5'
C7_Witness ==
    /\ pc = "main"
    /\ mode = "Numeric"
    /\ scanned = NotCalled
    /\ result = Some(<<"5", FALSE>>)
    /\ confirm_call = Some(<<"5", 2, "Numeric", Some("5")>>)
    /\ last_key = None

\* C8: the tick that confirms on the timeout returns the character the key
\* change would return for the same (last_key, tap_index, mode), and the tick
\* that confirms on a key change returns the character the timeout would
C8_SameConfirmation ==
    [][/\ (TickStep /\ pc' = "main")
          => /\ KeyChangeConfirm(Unwrap(last_key), tap_index, mode) # None
             /\ result' = Some(<<Unwrap(KeyChangeConfirm(Unwrap(last_key), tap_index, mode)), FALSE>>)
       /\ (ScanReturnStep /\ Pending /\ ScannedKey \in ValidKeys(mode)
             /\ Some(ScannedKey) # last_key)
          => /\ TimeoutConfirm(Unwrap(last_key), tap_index, mode) # None
             /\ result' = Some(<<Unwrap(TimeoutConfirm(Unwrap(last_key), tap_index, mode)), FALSE>>)
    ]_vars

\* a key change has confirmed '7' tapped four times as 'S'
C8_Witness ==
    /\ pc = "main"
    /\ scanned # NotCalled
    /\ confirm_call = Some(<<"7", 3, "Text", Some("S")>>)
    /\ result = Some(<<"S", FALSE>>)
    /\ last_key # None

\* C9: a pending key is always a digit in Numeric mode and a key of the
\* multi-tap table in Text mode; a tick that scans a key that is neither the
\* mode-switch key nor a function key and is invalid for the mode returns
\* nothing and leaves the engine Idle
C9_ModeValidity ==
    [][/\ last_key' # None => Unwrap(last_key') \in ValidKeys(mode')
       /\ (ScanReturnStep /\ ScannedKey \notin BypassKeys
             /\ ScannedKey \notin ValidKeys(mode))
          => /\ result' = None
             /\ last_key' = None
             /\ tap_index' = 0
    ]_vars

\* '1' has been scanned in Text mode: nothing returned, nothing pending
C9_Witness ==
    /\ pc = "tick"
    /\ mode = "Text"
    /\ scanned = Some(Some("1"))
    /\ result = None
    /\ last_key = None
    /\ tap_index = 0

\* C10: whenever scan_keypad returns one of '*', '!', '(', ')', '^', in either
\* mode, the same tick returns (key, false) with pending state cleared, and
\* none of these keys is ever pending
C10_FunctionKeys ==
    [][/\ (ScanReturnStep /\ ScannedKey \in FunctionKeys)
          => /\ result' = Some(<<ScannedKey, FALSE>>)
             /\ last_key' = None
             /\ tap_index' = 0
             /\ pc' = "main"
       /\ last_key' # None => Unwrap(last_key') \notin FunctionKeys
    ]_vars

\* '^' has been returned in Numeric mode before the timeout of a pending key
C10_Witness ==
    /\ pc = "main"
    /\ mode = "Numeric"
    /\ scanned = Some(Some("^"))
    /\ result = Some(<<"^", FALSE>>)
    /\ last_key = None
    /\ tap_index = 0
    /\ since_press < Timeout


\* the key of a set of held keys that is first in column-major order
ColumnMajorFirst(h) ==
    CHOOSE p \in h : \A q \in h :
        \/ p[2] < q[2]
        \/ p[2] = q[2] /\ p[1] <= q[1]
PositionOf(k) == CHOOSE p \in Positions : KeyAt(p) = k

\* C11: a scan pass detects and reports one key, the key of the lowest column
\* that has a held key and of the lowest row within that column; it reports
\* no key only after all four columns were scanned with no key held
C11_ColumnMajor ==
    /\ pc = "wait"
          => /\ key # None
             /\ Unwrap(key) = ColumnMajorFirst(held \cup {Unwrap(key)})
    /\ (pc = "scan_done" /\ scanned = Some(None))
          => /\ held = {}
             /\ col = 4
    /\ (pc = "scan_done" /\ scanned # Some(None))
          => /\ scanned \in {Some(Some(k)) : k \in KeyChars}
             /\ LET p == PositionOf(Unwrap(Unwrap(scanned)))
                IN  p = ColumnMajorFirst(held \cup {p})

\* with '5' (row 2, column 2) and '3' (row 1, column 3) held the pass has
\* reported '5'; '3' stays held
C11_Witness ==
    /\ pc = "scan_done"
    /\ scanned = Some(Some("5"))
    /\ held = {<<1, 3>>}

\* C13: at most one column line is low at any moment of a scan, and all four
\* are high when scan_keypad returns, with a key or without
C13_ColumnsRestored ==
    /\ Cardinality(cols_low) <= 1
    /\ pc \in {"scan_low", "scan_done"} => cols_low = {}
    /\ pc \in {"scan_rows", "wait"} => cols_low = {col}

\* a key of the last column has been waited for and returned
C13_Witness ==
    /\ pc = "scan_done"
    /\ scanned = Some(Some("("))
    /\ cols_low = {}


\* C12: scan_keypad returns the detected key only once its row reads high
\* again; while the key is held the call stays blocked and nothing is
\* reported; the returned key is no longer held, so it is detected again only
\* after a new press, and tap_index grows by one at most, at such a return;
\* once the key is released the call returns (while tap_index is below its cap)
C12_BlockingOnRelease ==
    /\ [][/\ ScanReturnStep
             => /\ Unwrap(key) \notin held
                /\ Unwrap(key) \notin held'
                /\ scanned' = Some(Some(ScannedKey))
          /\ (pc = "wait" /\ Unwrap(key) \in held /\ held' = held)
             => /\ pc' = "wait"
                /\ key' = key
                /\ scanned' = scanned
                /\ result' = result
                /\ tap_index' = tap_index
          /\ (pc # "wait" /\ pc' = "wait") => Unwrap(key') \in held
          /\ tap_index' > tap_index
             => /\ ScanReturnStep
                /\ tap_index' = tap_index + 1
       ]_vars
    /\ (pc = "wait" /\ Unwrap(key) \notin held
          /\ ~(Some(ScannedKey) = last_key /\ tap_index >= MaxTap))
       ~> (pc # "wait")

\* '2' held for longer than the timeout has been reported once, as the second
\* tap of '2'
C12_Witness ==
    /\ pc = "tick"
    /\ scanned = Some(Some("2"))
    /\ last_key = Some("2")
    /\ tap_index = 1
    /\ since_press = Timeout
    /\ held = {}

\* ------------------------------------------------------------- playback
IsPulse(e) == e[1] # {}
PulsesOf(tl) == SelectSeq(tl, IsPulse)
Returned == pc = "dlm_done"

RECURSIVE TrailingSilence(_)
TrailingSilence(tl) ==
    IF tl = <<>> \/ IsPulse(tl[Len(tl)]) THEN 0
    ELSE tl[Len(tl)][2] + TrailingSilence(SubSeq(tl, 1, Len(tl) - 1))

\* between two pulses there is one break, of the length of the symbol gap
SeparatedBySymbolGap(tl) ==
    \A i \in 1..Len(tl) :
        (IsPulse(tl[i]) /\ \E j \in (i + 1)..Len(tl) : IsPulse(tl[j]))
            => /\ tl[i + 1] = <<{}, SymbolGap>>
               /\ IsPulse(tl[i + 2])

DotPulse == <<{"led2", "buzzer"}, 200>>
DashPulse == <<{"led1", "led2", "led3", "buzzer"}, 600>>

PulseShape ==
    /\ played[1] = "S" => PulsesOf(timeline) = <<DotPulse, DotPulse, DotPulse>>
    /\ played[1] = "O" => PulsesOf(timeline) = <<DashPulse, DashPulse, DashPulse>>
    /\ SeparatedBySymbolGap(timeline)

\* C14 as stated: when display_letter_morse returns, 'S' has given three
\* dot pulses of 200ms and 'O' three dash pulses of 600ms, 200ms apart, and
\* the silence since the end of the last pulse is the 600ms letter gap.
C14_LetterGapOnly ==
    (Returned /\ PulsesOf(timeline) # <<>>)
        => /\ PulseShape
           /\ TrailingSilence(timeline) = LetterGap

\* C14: when display_letter_morse returns, 'S' has given three dot pulses of
\* 200ms and 'O' three dash pulses of 600ms, 200ms apart, and the silence
\* since the end of the last pulse is the 200ms symbol gap followed by the
\* 600ms letter gap.
C14_PulseTiming ==
    (Returned /\ PulsesOf(timeline) # <<>>)
        => /\ PulseShape
           /\ TrailingSilence(timeline) = SymbolGap + LetterGap
           /\ timeline[Len(timeline)] = <<{}, LetterGap>>

C14_Witness ==
    /\ Returned
    /\ played = <<"O">>
    /\ Len(timeline) = 7

\* C15: a dot holds led2 and the buzzer high, a dash holds the three LEDs and
\* the buzzer high; in every delay of the playback the buzzer is high exactly
\* when some LED is, and all four lines are low between pulses and at the
\* return.
C15_Outputs ==
    /\ ("buzzer" \in outputs) <=> (outputs \cap Leds # {})
    /\ \A i \in 1..Len(timeline) :
           ("buzzer" \in timeline[i][1]) <=> (timeline[i][1] \cap Leds # {})
    /\ pc = "dlm_pulse"
           => outputs = IF Head(code) = "." THEN {"led2", "buzzer"} ELSE Lines
    /\ pc # "dlm_pulse" => outputs = {}

C15_Witness ==
    /\ pc = "dlm_pulse"
    /\ played = <<"A">>
    /\ Head(code) = "-"
    /\ outputs = Lines
    /\ Len(timeline) = 3

HasEncoding == Range(UpperCase) \cup Range(LowerCase) \cup Range(Digits)

\* C16: for a character outside A-Z, a-z, 0-9 display_letter_morse changes
\* no output and takes no delay; for a character with a code the number of
\* pulses at the return is the length of its symbol string.
C16_NoOp ==
    [][/\ played[1] \notin HasEncoding
           => /\ outputs' = outputs
              /\ timeline' = timeline
              /\ timeline = <<>>
              /\ pc' = "dlm_done"
       /\ (played[1] \in HasEncoding /\ pc' = "dlm_done")
           => /\ morse_table(played[1]) # None
              /\ Len(PulsesOf(timeline')) = Len(Unwrap(morse_table(played[1])))
              /\ played[1] = "5" => Len(PulsesOf(timeline')) = 5
              /\ played[1] = "s" => Len(PulsesOf(timeline')) = 3]_vars

C16_Witness ==
    /\ Returned
    /\ played = <<"@">>
    /\ timeline = <<>>
    /\ outputs = {}

\* ------------------------------------------------- playback in the program
\* C17: while main plays a confirmed character no scan_keypad call runs and
\* last_key, tap_index and last_press_time are not written, whatever is
\* pressed or released meanwhile; a key is detected only in a tick and only
\* while it is held at that scan, so a key pressed and released within the
\* playback is never reported; the playback ends and control returns to the
\* tick loop.
C17_NoPollDuringPlayback ==
    /\ [][/\ pc = "play"
             => /\ pc' \in {"play", "tick"}
                /\ last_key' = last_key
                /\ tap_index' = tap_index
                /\ since_press' >= since_press
                /\ key' = None
                /\ scanned' = NotCalled
                /\ confirm_call' = None
                /\ result' \in {result, None}
                /\ mode' = mode
          /\ (pc = "play" /\ pc' = "tick") => result' = None /\ held' = held
          /\ (pc # "wait" /\ pc' = "wait")
             => /\ pc = "tick"
                /\ Unwrap(key') \in held
       ]_vars
    /\ (pc = "play") ~> (pc = "tick")

\* 'A' is being played, confirmed by a press of '3'; '2' has been pressed
\* since the playback began
C17_Witness ==
    /\ pc = "play"
    /\ result = Some(<<"A", FALSE>>)
    /\ last_key = Some("3")
    /\ held = {<<1, 2>>}

\* ------------------------------------------------- timeout without a character
Unresolved == Pending /\ confirm_key(Unwrap(last_key), tap_index, mode) = None

\* C18: at a tick where a key is pending and the timeout has elapsed, if
\* confirm_key yields nothing for the pending key then the tick returns
\* nothing without scanning and leaves the engine idle (last_key = None,
\* tap_index = 0).
C18_ClearedRegardless ==
    [][(TickStep /\ mode' = mode /\ Unresolved /\ Elapsed)
          => /\ result' = None
             /\ scanned' = NotCalled
             /\ pc' # "wait"
             /\ last_key' = None
             /\ tap_index' = 0]_vars

\* ------------------------------------------------------ candidate lookups
InBounds(chars, i) == i \in 0..(Len(chars) - 1)
TableOf(k) == Unwrap(get_multitap_chars(k))

\* C19: every candidate lookup, in confirm_key and in the preview after a
\* tap, indexes the candidate list of the key it is made for with tap_index
\* modulo the length of that list, so the index is within the list however
\* many times the key was tapped ('0' has one candidate, '7' and '9' four).
C19_LookupInBounds ==
    /\ (Pending /\ mode = "Text" /\ get_multitap_chars(Unwrap(last_key)) # None)
        => LET chars == TableOf(Unwrap(last_key))
           IN  /\ InBounds(chars, CandidateIndex(chars, tap_index))
               /\ CandidateIndex(chars, tap_index) = tap_index % Len(chars)
               /\ preview(Unwrap(last_key), tap_index, mode)
                      = Some(chars[(tap_index % Len(chars)) + 1])
    /\ (confirm_call # None /\ Unwrap(confirm_call)[3] = "Text")
        => LET k == Unwrap(confirm_call)[1]
               n == Unwrap(confirm_call)[2]
           IN  /\ get_multitap_chars(k) # None
               /\ InBounds(TableOf(k), CandidateIndex(TableOf(k), n))
               /\ Unwrap(confirm_call)[4]
                      = Some(TableOf(k)[(n % Len(TableOf(k))) + 1])

\* '7' tapped five times: the lookup of the timeout wrapped round to 'P'
C19_Witness ==
    /\ pc = "main"
    /\ confirm_call = Some(<<"7", 4, "Text", Some("P")>>)
    /\ result = Some(<<"P", FALSE>>)

\* -------------------------------------------------------------- the mode
Toggle(m) == IF m = "Text" THEN "Numeric" ELSE "Text"
SwitchReturned == pc = "main" /\ result # None /\ Unwrap(result)[2]

\* C20: the mode changes only when main handles a value returned with
\* is_mode_switch = true, never during a call; it then toggles once, and a
\* second toggle gives the first mode back; handling that value appends
\* nothing to the message and plays nothing.
C20_ModeWrittenByMain ==
    [][/\ mode' # mode => SwitchReturned
       /\ pc = "tick" => mode' = mode
       /\ SwitchReturned
            => /\ mode' = Toggle(mode)
               /\ mode' # mode
               /\ Toggle(mode') = mode
               /\ message' = message
               /\ played = <<>>
               /\ played' = <<>>
               /\ pc' = "tick"
       /\ (pc = "main" /\ ~SwitchReturned) => mode' = mode
      ]_vars

\* 'E' was confirmed in Text mode and then '#' was handled: the mode is
\* Numeric, the message still holds 'E' alone and nothing was played
C20_Witness ==
    /\ pc = "tick"
    /\ mode = "Numeric"
    /\ message = <<"E">>
    /\ played = <<>>

\* ------------------------------------------------------------ transmission
SendReturned == pc = "main" /\ result = Some(<<"(", FALSE>>)

\* C21: when main handles the send key '(' the characters handed to playback
\* are the characters of the message accumulated since the last transmission,
\* in order and without the '(' itself, at every fill level from 0 to the
\* capacity of 32; afterwards the message is empty; with nothing accumulated
\* the no-message text is shown.
C21_FullTransmission ==
    [][SendReturned
          => /\ played' = message
             /\ message' = <<>>
             /\ message = <<>>
                  => SendShows(push(message, "(")) = "No msg to send"
      ]_vars

\* ------------------------------------------------------ the pending key
\* C22: in every state of the whole program a pending key is valid for the
\* current mode, so confirm_key resolves it to a character, and with no key
\* pending tap_index is 0; hence every confirm_key call the program made, on
\* the timeout or on a key change, returned a character.
C22_PendingResolves ==
    /\ Pending
        => /\ Unwrap(last_key) \in ValidKeys(mode)
           /\ confirm_key(Unwrap(last_key), tap_index, mode) # None
    /\ ~Pending => tap_index = 0
    /\ confirm_call # None => Unwrap(confirm_call)[4] # None
    /\ (Pending /\ Elapsed) => TimeoutFires

\* '1' is pending in Numeric mode, reached through a mode switch, after a
\* second tap
C22_Witness ==
    /\ pc = "tick"
    /\ mode = "Numeric"
    /\ last_key = Some("1")
    /\ tap_index = 1

====
